---- MODULE Spec2Model ----
(***************************************************************************)
(* django_statsd: per-request counters and timers (middleware.py) and the  *)
(* celery signal handlers (celery.py), as a state machine.                  *)
(*                                                                         *)
(* Python dicts are sequences of [k, v] entries in insertion order (the    *)
(* iteration order of dict, defaultdict and .items()).  A deque is a       *)
(* sequence whose right end is its last element.  time.time() is the       *)
(* variable now, in whole ticks.  An exception is the err field of an      *)
(* operation's result; the state it carries is the state the call left     *)
(* behind when the exception was raised.                                   *)
(*                                                                         *)
(* A call is one step when it touches what the threads share at most once. *)
(* The threads share the StatsdMiddleware instance (its view_name          *)
(* attribute) and the statsd client; a call that reads or writes them more *)
(* than once takes one step per access, and the steps of other threads     *)
(* come between them.  What a call does to its thread's own scope is part  *)
(* of the step before its next shared access.                              *)
(***************************************************************************)
EXTENDS Integers, Sequences, FiniteSets, TLC

\* ---------------------------------------------------------------- bounds
MaxTime == 2
MaxOps == 4
MaxDirectOps == 5
MaxWithOps == 5
MaxConcOps == 4
MaxReqOps == 4
MaxTaskOps == 4
MaxWith == 2

\* STATSD_SAMPLE_RATE default (middleware.py line 23)
DefaultSampleRate == 1

Threads == {"t1"}
\* the threads of the runs with two threads
AllThreads == {"t1", "t2"}
TimerKeys == {"total", "a"}
CounterKeys == {"hit", "a"}
Prefixes == {"view", "celery"}
Deltas == {1}
\* the spans of the dispatch phases (STATSD_TRACK_MIDDLEWARE)
PhaseKeys == {"process_request", "process_view", "process_response", "process_exception",
              "process_template_response"}
\* task.name of the celery signals
TaskNames == {"add"}
\* the names in dir(celery.signals) that are Signals, in dir()'s order: the
\* three the handlers are connected to and one more
Signals == <<"task_failure", "task_postrun", "task_prerun", "task_success">>
\* request.method, and str.lower of it
Methods == {"GET"}
Lower == [GET |-> "get"]
\* view_func: a function (it has __name__) and an instance of a class that
\* has none
ViewFuncs ==
    { [module |-> "app.views", has_name |-> TRUE, name |-> "index", class |-> "function"],
      [module |-> "app.feeds", has_name |-> FALSE, name |-> "", class |-> "Feed"] }
DirectDeltas == {0, 1}

\* ------------------------------------------------------- python values
None == [cls |-> "None"]
NoErr == "None"

\* bool(x) of a scope attribute: None is false, a Timer or Counter object
\* (no __len__, no __bool__) is true
Truthy(x) == x.cls # "None"

\* a str value
Str(x) == [cls |-> "str", s |-> x]

\* a tags argument: a dict (its items in order, each a key and a value) or,
\* from celery.stop, a str
TagsDict(items) == [kind |-> "dict", items |-> items]
TagsStr(s) == [kind |-> "str", s |-> s]
NoTags == TagsDict(<<>>)
MethodGet == TagsDict(<< <<"method", Str("get")>> >>)
SiteTags == TagsDict(<< <<"type", Str("site")>> >>)

\* the last element of a sequence
Last(q) == q[Len(q)]

\* ---------------------------------------------------------------- dicts
DictHas(d, k) == \E i \in 1..Len(d) : d[i].k = k
DictGet(d, k) == d[CHOOSE i \in 1..Len(d) : d[i].k = k].v
\* defaultdict.__getitem__ without the insertion
DictGetOr(d, k, dflt) == IF DictHas(d, k) THEN DictGet(d, k) ELSE dflt
\* d[k] = v: an existing key keeps its place, a new key goes last
DictSet(d, k, v) ==
    IF DictHas(d, k)
    THEN [i \in 1..Len(d) |-> IF d[i].k = k THEN [k |-> k, v |-> v] ELSE d[i]]
    ELSE Append(d, [k |-> k, v |-> v])
DictDel(d, k) == SelectSeq(d, LAMBDA e : e.k # k)
DictKeys(d) == {d[i].k : i \in 1..Len(d)}

\* [k + ":" + v for k, v in tags.items()]: a str has no items, and a value
\* that is not a str cannot be added to one
TagErr(tags) ==
    IF tags.kind # "dict" THEN "AttributeError"
    ELSE IF \E i \in 1..Len(tags.items) : tags.items[i][2].cls # "str" THEN "TypeError"
    ELSE NoErr
TagList(tags) ==
    [i \in 1..Len(tags.items) |-> tags.items[i][1] \o ":" \o tags.items[i][2].s]

\* the call statsd.increment / statsd.timing as the sink sees it
SinkEvent(kind, prefix, key, value, tags) ==
    [kind |-> kind, name |-> prefix \o "." \o key, value |-> value,
     tags |-> TagList(tags), sample_rate |-> DefaultSampleRate]
SinkEvents(kind, prefix, emit, tags) ==
    [i \in 1..Len(emit) |-> SinkEvent(kind, prefix, emit[i].k, emit[i].v, tags)]

\* --------------------------------------------------------------- Client
\* Client.__init__: the global STATSD_PREFIX ("" when unset or empty) is put
\* in front of the prefix
ClientPrefix(prefix, st) ==
    IF st.STATSD_PREFIX # "" THEN st.STATSD_PREFIX \o "." \o prefix ELSE prefix

\* -------------------------------------------------------------- Counter
NewCounter(prefix, st) ==
    [cls |-> "Counter", prefix |-> ClientPrefix(prefix, st), data |-> <<>>]

CounterIncrement_Assign(c, key, delta) ==
    [c EXCEPT !.data = DictSet(c.data, key, delta)]
CounterIncrement(c, key, delta) ==
    [c EXCEPT !.data = DictSet(c.data, key, DictGetOr(c.data, key, 0) + delta)]

CounterDecrement(c, key, delta) ==
    [c EXCEPT !.data = DictSet(c.data, key, DictGetOr(c.data, key, 0) - delta)]

\* Counter.submit: obj is the counter afterwards, emit the [k, v] emitted.
\* The tag list is built first (TagErr); sample_rate is a module
\* global bound only when STATSD_TRACK_MIDDLEWARE is on, so the first
\* statsd.increment call raises NameError while its arguments are evaluated.
CounterSubmit(c, tags, st) ==
    LET nz == SelectSeq(c.data, LAMBDA e : e.v # 0)
    IN  IF TagErr(tags) # NoErr THEN [obj |-> c, emit |-> <<>>, err |-> TagErr(tags)]
        ELSE IF nz = <<>> THEN [obj |-> c, emit |-> <<>>, err |-> NoErr]
        ELSE IF ~st.TRACK_MIDDLEWARE THEN [obj |-> c, emit |-> <<>>, err |-> "NameError"]
        ELSE [obj |-> c, emit |-> nz, err |-> NoErr]

\* ---------------------------------------------------------------- Timer
NewTimer(prefix, st) ==
    [cls |-> "Timer", prefix |-> ClientPrefix(prefix, st), starts |-> <<>>, data |-> <<>>]

\* self.starts[key].append(time.time())
TimerStart(tm, key, t) ==
    [tm EXCEPT !.starts = DictSet(tm.starts, key, Append(DictGetOr(tm.starts, key, <<>>), t))]

\* Timer.stop.  Reading self.starts[key] of a defaultdict inserts an empty
\* deque for a missing key before the assert looks at it, and the failed
\* assert leaves it there.
TimerStop_Fifo(tm, key, t) ==
    LET s1 == IF DictHas(tm.starts, key) THEN tm.starts
              ELSE Append(tm.starts, [k |-> key, v |-> <<>>])
        stack == DictGet(s1, key)
    IN  IF stack = <<>>
        THEN [obj |-> [tm EXCEPT !.starts = s1], err |-> "AssertionError", ret |-> <<>>]
        ELSE LET delta == t - Head(stack)
                 rest == Tail(stack)
                 s2 == IF rest = <<>> THEN DictDel(s1, key) ELSE DictSet(s1, key, rest)
             IN  [obj |-> [tm EXCEPT !.starts = s2,
                                     !.data = DictSet(tm.data, key,
                                                  DictGetOr(tm.data, key, 0) + delta)],
                  err |-> NoErr, ret |-> <<delta>>]
TimerStop_Lenient(tm, key, t) ==
    LET stack == DictGetOr(tm.starts, key, <<>>)
    IN  IF stack = <<>>
        THEN [obj |-> [tm EXCEPT !.data = DictSet(tm.data, key, DictGetOr(tm.data, key, 0))],
              err |-> NoErr, ret |-> <<0>>]
        ELSE LET delta == t - stack[Len(stack)]
                 rest == SubSeq(stack, 1, Len(stack) - 1)
                 s2 == IF rest = <<>> THEN DictDel(tm.starts, key)
                       ELSE DictSet(tm.starts, key, rest)
             IN  [obj |-> [tm EXCEPT !.starts = s2,
                                     !.data = DictSet(tm.data, key,
                                                  DictGetOr(tm.data, key, 0) + delta)],
                  err |-> NoErr, ret |-> <<delta>>]
TimerStop(tm, key, t) ==
    LET s1 == IF DictHas(tm.starts, key) THEN tm.starts
              ELSE Append(tm.starts, [k |-> key, v |-> <<>>])
        stack == DictGet(s1, key)
    IN  IF stack = <<>>
        THEN [obj |-> [tm EXCEPT !.starts = s1], err |-> "AssertionError", ret |-> <<>>]
        ELSE LET delta == t - stack[Len(stack)]
                 rest == SubSeq(stack, 1, Len(stack) - 1)
                 s2 == IF rest = <<>> THEN DictDel(s1, key) ELSE DictSet(s1, key, rest)
             IN  [obj |-> [tm EXCEPT !.starts = s2,
                                     !.data = DictSet(tm.data, key,
                                                  DictGetOr(tm.data, key, 0) + delta)],
                  err |-> NoErr, ret |-> <<delta>>]

\* Timer.submit.  The tag list is built first (TagErr).  Each turn of the
\* loop pops its key before the call's keyword arguments are evaluated, so
\* with sample_rate unbound the first key is lost and NameError leaves the
\* rest.  The DEBUG assert looks at the starts mapping itself, which is
\* non-empty as soon as it holds a key.
TimerSubmit(tm, tags, st) ==
    IF TagErr(tags) # NoErr THEN [obj |-> tm, emit |-> <<>>, err |-> TagErr(tags)]
    ELSE IF tm.data # <<>> /\ ~st.TRACK_MIDDLEWARE
    THEN [obj |-> [tm EXCEPT !.data = Tail(tm.data)], emit |-> <<>>, err |-> "NameError"]
    ELSE [obj |-> [tm EXCEPT !.data = <<>>], emit |-> tm.data,
          err |-> IF st.DEBUG /\ tm.starts # <<>> THEN "AssertionError" ELSE NoErr]

\* ---------------------------------------------------------------- scope
\* the attributes of StatsdMiddleware.scope (a threading.local) as one
\* thread sees them; an attribute never set reads as None through getattr
NoScope == [timings |-> None, counter |-> None, counter_site |-> None]

\* StatsdMiddleware.scope is a threading.local: an attribute read or written
\* by thread t is t's own
Slot_Shared(t) == "t1"
Slot(t) == t

\* StatsdMiddleware.start
SM_start_KeepSite(sc, prefix, t, st) ==
    [timings |-> TimerStart(NewTimer(prefix, st), "total", t),
     counter |-> CounterIncrement(NewCounter(prefix, st), "hit", 1),
     counter_site |-> IF Truthy(sc.counter_site)
                      THEN CounterIncrement(sc.counter_site, "hit", 1)
                      ELSE CounterIncrement(NewCounter(prefix, st), "hit", 1)]
SM_start(sc, prefix, t, st) ==
    [timings |-> TimerStart(NewTimer(prefix, st), "total", t),
     counter |-> CounterIncrement(NewCounter(prefix, st), "hit", 1),
     counter_site |-> CounterIncrement(NewCounter(prefix, st), "hit", 1)]

StopResult(sc, eT, eC, eS, err) ==
    [scope |-> sc, emitT |-> eT, emitC |-> eC, emitS |-> eS, err |-> err]

\* x.submit(tags) for a scope attribute x: None has no submit
AttrCounterSubmit(c, tags, st) ==
    IF Truthy(c) THEN CounterSubmit(c, tags, st)
    ELSE [obj |-> c, emit |-> <<>>, err |-> "AttributeError"]

\* the body of StatsdMiddleware.stop: the four calls in order, an exception
\* ending it
SM_stop_flush(sc, tags, t, st) ==
    LET r1 == TimerStop(sc.timings, "total", t)
        r2 == TimerSubmit(r1.obj, tags, st)
        r3 == AttrCounterSubmit(sc.counter, tags, st)
        r4 == AttrCounterSubmit(sc.counter_site, SiteTags, st)
    IN  IF r1.err # NoErr
        THEN StopResult([sc EXCEPT !.timings = r1.obj], <<>>, <<>>, <<>>, r1.err)
        ELSE IF r2.err # NoErr
        THEN StopResult([sc EXCEPT !.timings = r2.obj], r2.emit, <<>>, <<>>, r2.err)
        ELSE IF r3.err # NoErr
        THEN StopResult([sc EXCEPT !.timings = r2.obj], r2.emit, r3.emit, <<>>, r3.err)
        ELSE StopResult([sc EXCEPT !.timings = r2.obj], r2.emit, r3.emit, r4.emit, r4.err)

\* StatsdMiddleware.stop: nothing happens unless scope.timings is set
SM_stop_Unguarded(sc, tags, t, st) ==
    IF ~Truthy(sc.timings) THEN StopResult(sc, <<>>, <<>>, <<>>, "AttributeError")
    ELSE SM_stop_flush(sc, tags, t, st)
SM_stop(sc, tags, t, st) ==
    IF ~Truthy(sc.timings) THEN StopResult(sc, <<>>, <<>>, <<>>, NoErr)
    ELSE SM_stop_flush(sc, tags, t, st)

\* what one StatsdMiddleware.stop hands to the sink, in call order
StopEvents(sc, r, tags) ==
    SinkEvents("timing", sc.timings.prefix, r.emitT, tags)
    \o SinkEvents("increment", sc.counter.prefix, r.emitC, tags)
    \o SinkEvents("increment", sc.counter_site.prefix, r.emitS, SiteTags)

\* StatsdMiddleware.cleanup: counter_site is not reset
SM_cleanup(sc) == [sc EXCEPT !.timings = None, !.counter = None]

\* celery.increment(signal): statsd.increment('celery.status', signal), the
\* signal's name in the place of the count, no tags and no sample_rate given
celery_status(signal) ==
    [kind |-> "increment", name |-> "celery.status", value |-> signal, tags |-> None,
     sample_rate |-> DefaultSampleRate]
\* the import of django_statsd.celery: increment(signal) is called for every
\* Signal to make the receiver that is connected to it
celery_import == [i \in 1..Len(Signals) |-> celery_status(Signals[i])]

\* celery.clear
celery_clear(sc) == [sc EXCEPT !.timings = None]

\* celery.stop: StatsdMiddleware.stop with the task's name as tags, and only
\* when that returns, scope.timings = None
celery_stop(sc, name, t, st) ==
    IF SM_stop(sc, TagsStr(name), t, st).err # NoErr
    THEN SM_stop(sc, TagsStr(name), t, st)
    ELSE [SM_stop(sc, TagsStr(name), t, st) EXCEPT !.scope.timings = None]

\* the module-level start, stop, incr, decr: no-ops without the attribute
mod_start(sc, key, t) ==
    IF Truthy(sc.timings) THEN [sc EXCEPT !.timings = TimerStart(sc.timings, key, t)]
    ELSE sc
mod_stop(sc, key, t) ==
    IF Truthy(sc.timings)
    THEN LET r == TimerStop(sc.timings, key, t)
         IN  [scope |-> [sc EXCEPT !.timings = r.obj], err |-> r.err, ret |-> r.ret]
    ELSE [scope |-> sc, err |-> NoErr, ret |-> <<>>]
mod_incr_Lazy(sc, key, value) ==
    IF Truthy(sc.counter) THEN [sc EXCEPT !.counter = CounterIncrement(sc.counter, key, value)]
    ELSE [sc EXCEPT !.counter = [cls |-> "Counter", prefix |-> "view",
                                 data |-> << [k |-> key, v |-> value] >>]]
mod_incr(sc, key, value) ==
    IF Truthy(sc.counter) THEN [sc EXCEPT !.counter = CounterIncrement(sc.counter, key, value)]
    ELSE sc
mod_decr(sc, key, value) ==
    IF Truthy(sc.counter) THEN [sc EXCEPT !.counter = CounterDecrement(sc.counter, key, value)]
    ELSE sc

\* with_(key): a WithTimer on the scope's Timer (Timer.__call__), or a
\* DummyWith without one
mod_with(sc, key) ==
    IF Truthy(sc.timings) THEN "WithTimer" ELSE "DummyWith"

\* the Timer a WithTimer holds (self.timer): the object it was made on,
\* whatever the scope holds by now
HeldTimer(sc, hp, b) == IF b.ref = 0 THEN sc.timings ELSE hp[b.ref]

\* the with statement entering the block: with_(key), then __enter__ of what
\* it returned.  cls is the context manager's class.
WithEnter(sc, key, t) ==
    IF mod_with(sc, key) = "WithTimer"
    THEN [scope |-> [sc EXCEPT !.timings = TimerStart(sc.timings, key, t)], cls |-> "WithTimer"]
    ELSE [scope |-> sc, cls |-> "DummyWith"]

\* the with statement leaving block b: __exit__ of its context manager, the
\* same on a normal and on an error exit.  __exit__ has no return statement:
\* ret, what it returns, is None (<<>>) and an error of the body goes on.  tm
\* is the WithTimer's Timer afterwards, dur what its Timer.stop returned to
\* __exit__.
WithExit_ViaScope(sc, hp, b, t) ==
    IF b.cls = "DummyWith" \/ ~Truthy(sc.timings)
    THEN [scope |-> sc, heap |-> hp, err |-> NoErr, ret |-> <<>>, dur |-> <<>>,
          tm |-> IF b.cls = "DummyWith" THEN None ELSE HeldTimer(sc, hp, b)]
    ELSE LET r == TimerStop(sc.timings, b.key, t)
         IN  [scope |-> [sc EXCEPT !.timings = r.obj], heap |-> hp, err |-> r.err,
              ret |-> <<>>, dur |-> r.ret,
              tm |-> IF b.ref = 0 THEN r.obj ELSE HeldTimer(sc, hp, b)]
WithExit(sc, hp, b, t) ==
    IF b.cls = "DummyWith"
    THEN [scope |-> sc, heap |-> hp, err |-> NoErr, ret |-> <<>>, dur |-> <<>>, tm |-> None]
    ELSE LET r == TimerStop(HeldTimer(sc, hp, b), b.key, t)
         IN  IF b.ref = 0
             THEN [scope |-> [sc EXCEPT !.timings = r.obj], heap |-> hp, err |-> r.err,
                   ret |-> <<>>, dur |-> r.ret, tm |-> r.obj]
             ELSE [scope |-> sc, heap |-> [hp EXCEPT ![b.ref] = r.obj], err |-> r.err,
                   ret |-> <<>>, dur |-> r.ret, tm |-> r.obj]

\* the spans of the dispatch phases: StatsdMiddleware.scope.timings.start(key)
\* or .stop(key) when STATSD_TRACK_MIDDLEWARE is on; None has neither method.
\* dur is what Timer.stop returned; the hooks drop it.
PhaseStart(sc, key, t, st) ==
    IF ~st.TRACK_MIDDLEWARE THEN [scope |-> sc, err |-> NoErr, dur |-> <<>>]
    ELSE IF ~Truthy(sc.timings) THEN [scope |-> sc, err |-> "AttributeError", dur |-> <<>>]
    ELSE [scope |-> [sc EXCEPT !.timings = TimerStart(sc.timings, key, t)],
          err |-> NoErr, dur |-> <<>>]
PhaseStop(sc, key, t, st) ==
    IF ~st.TRACK_MIDDLEWARE THEN [scope |-> sc, err |-> NoErr, dur |-> <<>>]
    ELSE IF ~Truthy(sc.timings) THEN [scope |-> sc, err |-> "AttributeError", dur |-> <<>>]
    ELSE LET r == TimerStop(sc.timings, key, t)
         IN  [scope |-> [sc EXCEPT !.timings = r.obj], err |-> r.err, dur |-> r.ret]

\* StatsdMiddleware.process_request
SM_process_request(sc, t, st) ==
    PhaseStart(SM_start(sc, "view", t, st), "process_request", t, st).scope

\* str(x) of what the view_name attribute holds
StrOf(x) == IF Truthy(x) THEN x.s ELSE "None"

\* process_view, lines 153-157: '%s.%s' % (self.view_name, name), the name
\* being view_func.__name__ or, without one, that of its class; rd is what
\* self.view_name held when the right-hand side read it
ViewNameFrom(rd, vf) ==
    Str(StrOf(rd) \o "." \o (IF vf.has_name THEN vf.name ELSE vf.class))

\* the view name of process_view with nothing else writing the attribute:
\* module.name, or module.class name
ViewName(vf) == ViewNameFrom(Str(vf.module), vf).s

\* the tags of process_response, vn being self.view_name as line 166 reads it
ResponseTags(method, ajax, vn) ==
    TagsDict(<< <<"method", Str(Lower[method] \o (IF ajax THEN "_ajax" ELSE ""))>>,
                <<"view_name", vn>>, <<"type", Str("view")>> >>)

\* ---------------------------------------------------------------- state
VARIABLES
    settings,   \* django settings: DEBUG, STATSD_TRACK_MIDDLEWARE, STATSD_PREFIX
    now,        \* time.time()
    scope,      \* StatsdMiddleware.scope, per thread
    sink,       \* the calls made on statsd, in order
    last,       \* the last call: what it was, what it raised, returned, emitted
    aTimer,     \* a Timer used directly
    aCounter,   \* a Counter used directly
    pending,    \* per thread and accumulator: accumulated in the scope, not yet emitted
    applied,    \* per key: the sum of the signed deltas applied to aCounter
    phase,      \* per thread: UNINITIALIZED, ACTIVE or FLUSHED
    scen,       \* how far the run is the scenario start, incr, stop
    hist,       \* the start/stop calls made on aTimer, up to its first submit
    nops,       \* calls made so far
    budget,     \* calls the run may make
    own,        \* per thread and counter: the sums of the thread's incr/decr since its start
    blocks,     \* per thread: the with_ blocks it is in, outermost first
    heap,       \* per thread: Timers no longer in the scope that a with_ block still holds
    view_name,  \* the view_name attribute of the StatsdMiddleware instance
    req,        \* per thread: what the hooks did for the request it is handling
    running,    \* the threads of the run
    frame       \* per thread: the call it is inside, how far it got, its locals

vars == <<settings, now, scope, sink, last, aTimer, aCounter, pending, applied, phase, scen,
          hist, nops, budget, own, blocks, heap, view_name, req, running, frame>>
withs == <<blocks, heap>>
web == <<view_name, req>>
direct == <<aTimer, aCounter, hist, applied>>
scoped == <<scope, pending, phase, scen, own, withs, web, frame>>

SettingsSet ==
    [DEBUG : BOOLEAN, TRACK_MIDDLEWARE : BOOLEAN, STATSD_PREFIX : {"", "app"}]

\* ret is the duration a call returned, <<>> when it returned none (None, or
\* the response handed through)
Call(op, t, args, active, err, ret, eT, eC, eS) ==
    [op |-> op, t |-> t, args |-> args, active |-> active, err |-> err, ret |-> ret,
     emitT |-> eT, emitC |-> eC, emitS |-> eS]
NoCall == Call("init", "", <<>>, FALSE, NoErr, <<>>, <<>>, <<>>, <<>>)

\* nothing pending in any accumulator
ZeroOn(S) == [k \in S |-> 0]
NoPending ==
    [timings |-> ZeroOn(TimerKeys \cup PhaseKeys), counter |-> ZeroOn(CounterKeys),
     counter_site |-> ZeroOn(CounterKeys)]
\* ghost bookkeeping of the sums
PendAdd(p, key, d) == [p EXCEPT ![key] = @ + d]
PendFlush(p, emit) ==
    [k \in DOMAIN p |-> IF \E i \in 1..Len(emit) : emit[i].k = k THEN 0 ELSE p[k]]

\* what a thread's own calls have counted since its StatsdMiddleware.start at
\* time t0: after the start, the hit on both counters
NoOwn == [counter |-> ZeroOn(CounterKeys), counter_site |-> ZeroOn(CounterKeys), t0 |-> 0]
StartOwn(at) == [counter |-> PendAdd(ZeroOn(CounterKeys), "hit", 1),
                 counter_site |-> PendAdd(ZeroOn(CounterKeys), "hit", 1), t0 |-> at]

\* no request being handled on the thread
NoReq == [stage |-> "idle", view |-> None, t0 |-> 0]

\* a with_ block: the context manager with_(key) returned and what was there
\* when it was entered.  ref says which Timer a WithTimer holds: 0 the one in
\* the thread's scope, i > 0 the i-th of the thread's Timers that left the scope
Block(cls, key, ref, t0, depth0) ==
    [cls |-> cls, key |-> key, ref |-> ref, t0 |-> t0, depth0 |-> depth0, mixed |-> FALSE]
\* an assignment to scope.timings: the Timer that was there lives on in the
\* WithTimers that hold it
DetachHeap(bs, hp, old) ==
    IF \E i \in 1..Len(bs) : bs[i].ref = 0 THEN Append(hp, old) ELSE hp
DetachBlocks(bs, hp) ==
    [i \in 1..Len(bs) |-> IF bs[i].ref = 0 THEN [bs[i] EXCEPT !.ref = Len(hp) + 1] ELSE bs[i]]
\* a start or stop of key on the scope's Timer from inside the blocks that
\* hold that Timer for the same key
MixBlocks(bs, key) ==
    [i \in 1..Len(bs) |-> IF bs[i].ref = 0 /\ bs[i].key = key
                           THEN [bs[i] EXCEPT !.mixed = TRUE] ELSE bs[i]]

\* a thread inside no call.  A call that reads or writes what the threads
\* share (the view_name attribute, the statsd client) more than once is a
\* step per access: op is the call, pc the line it has reached, out the
\* statsd calls it has yet to make, the rest its locals.
NoFrame ==
    [op |-> "none", pc |-> "", out |-> <<>>, vf |-> None, rd |-> None, method |-> "",
     ajax |-> FALSE, decision |-> "unreached", tags |-> NoTags, active |-> FALSE,
     flush |-> StopResult(NoScope, <<>>, <<>>, <<>>, NoErr), mid |-> NoScope]

HistVoid == [state |-> "void", calls |-> <<>>]

ScenOff == [stage |-> "off", t0 |-> 0]
\* the scenario's next stage after call op with args on thread t
ScenStep(op, t, args) ==
    IF scen.stage = "init" /\ op = "StatsdMiddleware.start" /\ args = <<"view">>
    THEN [stage |-> "started", t0 |-> now]
    ELSE IF scen.stage = "started" /\ op = "incr" /\ args = <<"hit", 1>>
    THEN [scen EXCEPT !.stage = "incremented"]
    ELSE IF scen.stage = "incremented" /\ op = "StatsdMiddleware.stop" /\ args = <<MethodGet>>
    THEN [scen EXCEPT !.stage = "stopped"]
    ELSE ScenOff

InitCommon ==
    /\ settings \in SettingsSet
    /\ now = 0
    /\ last = NoCall
    /\ scope = [t \in AllThreads |-> NoScope]
    /\ pending = [t \in AllThreads |-> NoPending]
    /\ applied = ZeroOn(CounterKeys)
    /\ phase = [t \in AllThreads |-> "UNINITIALIZED"]
    /\ scen = [stage |-> "init", t0 |-> 0]
    /\ nops = 0
    /\ own = [t \in AllThreads |-> NoOwn]
    /\ blocks = [t \in AllThreads |-> <<>>]
    /\ heap = [t \in AllThreads |-> <<>>]
    /\ view_name = None
    /\ req = [t \in AllThreads |-> NoReq]
    /\ frame = [t \in AllThreads |-> NoFrame]

\* StatsdMiddleware() has run and django_statsd.celery is imported (clear is
\* its handler); nothing is used directly
Init ==
    /\ InitCommon
    /\ sink = celery_import
    /\ running = Threads
    /\ budget = MaxOps
    /\ aTimer = None
    /\ aCounter = None
    /\ hist = HistVoid

\* one more call, within the budget of the run
Count == nops < budget /\ nops' = nops + 1 /\ budget' = budget /\ running' = running
CountDirect ==
    nops < MaxDirectOps /\ nops' = nops + 1 /\ budget' = budget /\ running' = running
\* thread t is inside no call and can make one
Free(t) == frame[t].op = "none"
\* a call of thread t that is one step: it touches what the threads share at
\* most once
Whole(t) == Free(t) /\ Count /\ frame' = frame
\* a further step of a call under way
Within == nops' = nops /\ budget' = budget /\ running' = running

\* the statsd calls ev of a flush of thread t.  Each is a call on the client
\* all threads share, and the calls of another thread's flush can come between
\* them: they are handed over one by one (statsd_call).  On a thread running
\* alone nothing can come between them.
Deliver(t, op, ev) ==
    IF running = {t} \/ ev = <<>>
    THEN sink' = sink \o ev /\ frame' = frame
    ELSE /\ sink' = sink
         /\ frame' = [frame EXCEPT ![t] = [NoFrame EXCEPT !.op = op, !.pc = "send",
                                                          !.out = ev]]

\* the next statsd call of the flush thread t is in
statsd_call(t) ==
    /\ frame[t].out # <<>>
    /\ Within
    /\ sink' = Append(sink, Head(frame[t].out))
    /\ frame' = [frame EXCEPT ![t] =
                    IF @.op = "StatsdMiddleware.stop" /\ Len(@.out) = 1 THEN NoFrame
                    ELSE [@ EXCEPT !.out = Tail(@)]]
    /\ last' = Call("statsd", t, <<Head(frame[t].out).kind, Head(frame[t].out).name>>, TRUE,
                    NoErr, <<>>, <<>>, <<>>, <<>>)
    /\ UNCHANGED <<settings, now, scope, direct, pending, phase, scen, own, withs, web>>

\* the clock moves on between calls
Tick ==
    /\ now < MaxTime
    /\ now' = now + 1
    /\ last' = Call("tick", "", <<>>, FALSE, NoErr, <<>>, <<>>, <<>>, <<>>)
    /\ UNCHANGED <<settings, scope, sink, direct, pending, phase, scen, nops, budget, own,
                   withs, web, running, frame>>

\* StatsdMiddleware.start(prefix) on thread t
StatsdMiddleware_start(t, prefix) ==
    /\ Whole(t)
    /\ scope' = [scope EXCEPT ![Slot(t)] = SM_start(scope[Slot(t)], prefix, now, settings)]
    /\ pending' = [pending EXCEPT ![t] = [NoPending EXCEPT !.counter = PendAdd(@, "hit", 1),
                                                           !.counter_site = PendAdd(@, "hit", 1)]]
    /\ phase' = [phase EXCEPT ![t] = "ACTIVE"]
    /\ scen' = ScenStep("StatsdMiddleware.start", t, <<prefix>>)
    /\ last' = Call("StatsdMiddleware.start", t, <<prefix, phase[t]>>,
                    Truthy(scope[Slot(t)].timings), NoErr, <<>>, <<>>, <<>>, <<>>)
    /\ own' = [own EXCEPT ![t] = StartOwn(now)]
    /\ heap' = [heap EXCEPT ![t] = DetachHeap(blocks[t], @, scope[Slot(t)].timings)]
    /\ blocks' = [blocks EXCEPT ![t] = DetachBlocks(@, heap[t])]
    /\ UNCHANGED <<settings, now, sink, direct, web>>

\* StatsdMiddleware.stop(tags) on thread t
StatsdMiddleware_stop(t, tags) ==
    LET r == SM_stop(scope[Slot(t)], tags, now, settings)
        ev == IF Truthy(scope[Slot(t)].timings) THEN StopEvents(scope[Slot(t)], r, tags) ELSE <<>>
        stopped == Truthy(scope[Slot(t)].timings)
                   /\ TimerStop(scope[Slot(t)].timings, "total", now).err = NoErr
        p0 == pending[t]
        p1 == IF stopped
              THEN [p0 EXCEPT !.timings = PendAdd(@, "total",
                        TimerStop(scope[Slot(t)].timings, "total", now).ret[1])]
              ELSE p0
    IN  /\ Free(t)
        /\ Count
        /\ scope' = [scope EXCEPT ![Slot(t)] = r.scope]
        /\ Deliver(t, "StatsdMiddleware.stop", ev)
        /\ pending' = [pending EXCEPT ![t] =
                          [timings |-> PendFlush(p1.timings, r.emitT),
                           counter |-> PendFlush(p1.counter, r.emitC),
                           counter_site |-> PendFlush(p1.counter_site, r.emitS)]]
        /\ phase' = [phase EXCEPT ![t] =
                        IF Truthy(scope[Slot(t)].timings) /\ r.err = NoErr THEN "FLUSHED" ELSE @]
        /\ scen' = ScenStep("StatsdMiddleware.stop", t, <<tags>>)
        /\ last' = Call("StatsdMiddleware.stop", t, <<tags>>, Truthy(scope[Slot(t)].timings),
                        r.err, <<>>, r.emitT, r.emitC, r.emitS)
        /\ blocks' = [blocks EXCEPT ![t] =
                         IF Truthy(scope[Slot(t)].timings) THEN MixBlocks(@, "total") ELSE @]
        /\ UNCHANGED <<settings, now, direct, own, heap, web>>

\* StatsdMiddleware.cleanup(request) on thread t
cleanup(t) ==
    /\ Whole(t)
    /\ scope' = [scope EXCEPT ![Slot(t)] = SM_cleanup(scope[Slot(t)])]
    /\ pending' = [pending EXCEPT ![t] = NoPending]
    /\ phase' = [phase EXCEPT ![t] = "UNINITIALIZED"]
    /\ scen' = ScenStep("cleanup", t, <<>>)
    /\ last' = Call("cleanup", t, <<>>, Truthy(scope[Slot(t)].timings), NoErr, <<>>, <<>>, <<>>, <<>>)
    /\ view_name' = None
    /\ req' = [req EXCEPT ![t] = NoReq]
    /\ heap' = [heap EXCEPT ![t] = DetachHeap(blocks[t], @, scope[Slot(t)].timings)]
    /\ blocks' = [blocks EXCEPT ![t] = DetachBlocks(@, heap[t])]
    /\ UNCHANGED <<settings, now, sink, direct, own>>

\* celery.clear, the task_failure handler, on thread t
clear(t) ==
    /\ Whole(t)
    /\ scope' = [scope EXCEPT ![Slot(t)] = celery_clear(scope[Slot(t)])]
    /\ pending' = [pending EXCEPT ![t] = NoPending]
    /\ phase' = [phase EXCEPT ![t] = "UNINITIALIZED"]
    /\ scen' = ScenStep("clear", t, <<>>)
    /\ last' = Call("clear", t, <<>>, Truthy(scope[Slot(t)].timings), NoErr, <<>>, <<>>, <<>>, <<>>)
    /\ heap' = [heap EXCEPT ![t] = DetachHeap(blocks[t], @, scope[Slot(t)].timings)]
    /\ blocks' = [blocks EXCEPT ![t] = DetachBlocks(@, heap[t])]
    /\ UNCHANGED <<settings, now, sink, direct, own, web>>

\* start(key) on thread t
start(t, key) ==
    /\ Whole(t)
    /\ scope' = [scope EXCEPT ![Slot(t)] = mod_start(scope[Slot(t)], key, now)]
    /\ scen' = ScenStep("start", t, <<key>>)
    /\ last' = Call("start", t, <<key>>, Truthy(scope[Slot(t)].timings), NoErr, <<>>, <<>>, <<>>, <<>>)
    /\ blocks' = [blocks EXCEPT ![t] =
                     IF Truthy(scope[Slot(t)].timings) THEN MixBlocks(@, key) ELSE @]
    /\ UNCHANGED <<settings, now, sink, direct, pending, phase, own, heap, web>>

\* stop(key) on thread t
stop(t, key) ==
    LET r == mod_stop(scope[Slot(t)], key, now)
    IN  /\ Whole(t)
        /\ scope' = [scope EXCEPT ![Slot(t)] = r.scope]
        /\ pending' = [pending EXCEPT ![t].timings =
                          IF r.ret # <<>> THEN PendAdd(@, key, r.ret[1]) ELSE @]
        /\ scen' = ScenStep("stop", t, <<key>>)
        /\ last' = Call("stop", t, <<key>>, Truthy(scope[Slot(t)].timings), r.err, r.ret,
                        <<>>, <<>>, <<>>)
        /\ blocks' = [blocks EXCEPT ![t] =
                         IF Truthy(scope[Slot(t)].timings) THEN MixBlocks(@, key) ELSE @]
        /\ UNCHANGED <<settings, now, sink, direct, phase, own, heap, web>>

\* incr(key, value) on thread t
incr(t, key, value) ==
    /\ Whole(t)
    /\ scope' = [scope EXCEPT ![Slot(t)] = mod_incr(scope[Slot(t)], key, value)]
    /\ pending' = [pending EXCEPT ![t].counter =
                      IF Truthy(scope[Slot(t)].counter) THEN PendAdd(@, key, value) ELSE @]
    /\ scen' = ScenStep("incr", t, <<key, value>>)
    /\ last' = Call("incr", t, <<key, value>>, Truthy(scope[Slot(t)].counter), NoErr, <<>>,
                    <<>>, <<>>, <<>>)
    /\ own' = [own EXCEPT ![t].counter =
                  IF Truthy(scope[Slot(t)].counter) THEN PendAdd(@, key, value) ELSE @]
    /\ UNCHANGED <<settings, now, sink, direct, phase, withs, web>>

\* decr(key, value) on thread t
decr(t, key, value) ==
    /\ Whole(t)
    /\ scope' = [scope EXCEPT ![Slot(t)] = mod_decr(scope[Slot(t)], key, value)]
    /\ pending' = [pending EXCEPT ![t].counter =
                      IF Truthy(scope[Slot(t)].counter) THEN PendAdd(@, key, -value) ELSE @]
    /\ scen' = ScenStep("decr", t, <<key, value>>)
    /\ last' = Call("decr", t, <<key, value>>, Truthy(scope[Slot(t)].counter), NoErr, <<>>,
                    <<>>, <<>>, <<>>)
    /\ own' = [own EXCEPT ![t].counter =
                  IF Truthy(scope[Slot(t)].counter) THEN PendAdd(@, key, -value) ELSE @]
    /\ UNCHANGED <<settings, now, sink, direct, phase, withs, web>>

Next ==
    \/ Tick
    \/ \E t \in Threads, prefix \in Prefixes : StatsdMiddleware_start(t, prefix)
    \/ \E t \in Threads, tags \in {NoTags, MethodGet} : StatsdMiddleware_stop(t, tags)
    \/ \E t \in Threads : cleanup(t)
    \/ \E t \in Threads : clear(t)
    \/ \E t \in Threads, key \in TimerKeys : start(t, key)
    \/ \E t \in Threads, key \in TimerKeys : stop(t, key)
    \/ \E t \in Threads, key \in CounterKeys, value \in Deltas : incr(t, key, value)
    \/ \E t \in Threads, key \in CounterKeys, value \in Deltas : decr(t, key, value)

Spec == Init /\ [][Next]_vars

\* ------------------------------------------------- a Timer used directly
HistAdd(op, key) ==
    IF hist.state = "open"
    THEN [hist EXCEPT !.calls = Append(@, [op |-> op, k |-> key, at |-> now])]
    ELSE HistVoid

InitTimer ==
    /\ InitCommon
    /\ sink = <<>>
    /\ running = Threads
    /\ budget = MaxDirectOps
    /\ settings.STATSD_PREFIX = ""
    /\ aTimer = NewTimer("view", settings)
    /\ aCounter = None
    /\ hist = [state |-> "open", calls |-> <<>>]

Timer_start(key) ==
    /\ CountDirect
    /\ aTimer' = TimerStart(aTimer, key, now)
    /\ hist' = HistAdd("start", key)
    /\ last' = Call("Timer.start", "direct", <<key>>, TRUE, NoErr, <<>>, <<>>, <<>>, <<>>)
    /\ UNCHANGED <<settings, now, sink, aCounter, applied, scoped>>

Timer_stop(key) ==
    LET r == TimerStop(aTimer, key, now)
    IN  /\ CountDirect
        /\ aTimer' = r.obj
        /\ hist' = IF r.err = NoErr THEN HistAdd("stop", key) ELSE HistVoid
        /\ last' = Call("Timer.stop", "direct", <<key>>, TRUE, r.err, r.ret, <<>>, <<>>, <<>>)
        /\ UNCHANGED <<settings, now, sink, aCounter, applied, scoped>>

Timer_submit(tags) ==
    LET r == TimerSubmit(aTimer, tags, settings)
    IN  /\ CountDirect
        /\ aTimer' = r.obj
        /\ sink' = sink \o SinkEvents("timing", aTimer.prefix, r.emit, tags)
        /\ hist' = IF hist.state = "open" THEN [hist EXCEPT !.state = "flushed"] ELSE HistVoid
        /\ last' = Call("Timer.submit", "direct", <<tags>>, TRUE, r.err, <<>>, r.emit, <<>>, <<>>)
        /\ UNCHANGED <<settings, now, aCounter, applied, scoped>>

NextTimer ==
    \/ Tick
    \/ \E key \in TimerKeys : Timer_start(key)
    \/ \E key \in TimerKeys : Timer_stop(key)
    \/ \E tags \in {NoTags, MethodGet} : Timer_submit(tags)

SpecTimer == InitTimer /\ [][NextTimer]_vars

\* ----------------------------------------------- a Counter used directly
InitCounter ==
    /\ InitCommon
    /\ sink = <<>>
    /\ running = Threads
    /\ budget = MaxDirectOps
    /\ aTimer = None
    /\ aCounter \in {NewCounter(prefix, settings) : prefix \in Prefixes}
    /\ hist = HistVoid

Counter_increment(key, delta) ==
    /\ CountDirect
    /\ aCounter' = CounterIncrement(aCounter, key, delta)
    /\ applied' = PendAdd(applied, key, delta)
    /\ last' = Call("Counter.increment", "direct", <<key, delta>>, TRUE, NoErr, <<>>,
                    <<>>, <<>>, <<>>)
    /\ UNCHANGED <<settings, now, sink, aTimer, hist, scoped>>

Counter_decrement(key, delta) ==
    /\ CountDirect
    /\ aCounter' = CounterDecrement(aCounter, key, delta)
    /\ applied' = PendAdd(applied, key, -delta)
    /\ last' = Call("Counter.decrement", "direct", <<key, delta>>, TRUE, NoErr, <<>>,
                    <<>>, <<>>, <<>>)
    /\ UNCHANGED <<settings, now, sink, aTimer, hist, scoped>>

Counter_submit(tags) ==
    LET r == CounterSubmit(aCounter, tags, settings)
    IN  /\ CountDirect
        /\ aCounter' = r.obj
        /\ sink' = sink \o SinkEvents("increment", aCounter.prefix, r.emit, tags)
        /\ last' = Call("Counter.submit", "direct", <<tags>>, TRUE, r.err, <<>>,
                        <<>>, r.emit, <<>>)
        /\ UNCHANGED <<settings, now, aTimer, hist, applied, scoped>>

NextCounter ==
    \/ \E key \in CounterKeys, delta \in DirectDeltas : Counter_increment(key, delta)
    \/ \E key \in CounterKeys, delta \in DirectDeltas : Counter_decrement(key, delta)
    \/ \E tags \in {NoTags, MethodGet} : Counter_submit(tags)

SpecCounter == InitCounter /\ [][NextCounter]_vars

\* ---------------------------------------------------------- two threads
InitConc ==
    /\ InitCommon
    /\ sink = <<>>
    /\ running = AllThreads
    /\ settings.STATSD_PREFIX = ""
    /\ budget = MaxConcOps
    /\ aTimer = None
    /\ aCounter = None
    /\ hist = HistVoid

NextConc ==
    \/ Tick
    \/ \E t \in AllThreads : StatsdMiddleware_start(t, "view")
    \/ \E t \in AllThreads : StatsdMiddleware_stop(t, NoTags)
    \/ \E t \in AllThreads : statsd_call(t)
    \/ \E t \in AllThreads : cleanup(t)
    \/ \E t \in AllThreads : start(t, "a")
    \/ \E t \in AllThreads : stop(t, "a")
    \/ \E t \in AllThreads : incr(t, "a", 1)
    \/ \E t \in AllThreads : decr(t, "a", 1)

SpecConc == InitConc /\ [][NextConc]_vars

\* ------------------------------------------------- the middleware hooks
InitReq ==
    /\ InitCommon
    /\ sink = <<>>
    /\ running = AllThreads
    /\ settings.STATSD_PREFIX = ""
    /\ budget = MaxReqOps
    /\ aTimer = None
    /\ aCounter = None
    /\ hist = HistVoid

\* StatsdMiddleware.process_request on thread t
process_request(t) ==
    /\ Whole(t)
    /\ scope' = [scope EXCEPT ![Slot(t)] = SM_process_request(scope[Slot(t)], now, settings)]
    /\ view_name' = None
    /\ req' = [req EXCEPT ![t] = [stage |-> "requested", view |-> None, t0 |-> now]]
    /\ pending' = [pending EXCEPT ![t] = [NoPending EXCEPT !.counter = PendAdd(@, "hit", 1),
                                                           !.counter_site = PendAdd(@, "hit", 1)]]
    /\ own' = [own EXCEPT ![t] = StartOwn(now)]
    /\ phase' = [phase EXCEPT ![t] = "ACTIVE"]
    /\ heap' = [heap EXCEPT ![t] = DetachHeap(blocks[t], @, scope[Slot(t)].timings)]
    /\ blocks' = [blocks EXCEPT ![t] = DetachBlocks(@, heap[t])]
    /\ scen' = ScenStep("process_request", t, <<>>)
    /\ last' = Call("process_request", t, <<>>, Truthy(scope[Slot(t)].timings), NoErr, <<>>,
                    <<>>, <<>>, <<>>)
    /\ UNCHANGED <<settings, now, sink, direct>>

\* StatsdMiddleware.process_view on thread t, lines 144-150: the span, and
\* when that did not raise the module name is written to self.view_name
process_view(t, vf) ==
    LET r == PhaseStart(scope[Slot(t)], "process_view", now, settings)
    IN  /\ Free(t)
        /\ Count
        /\ scope' = [scope EXCEPT ![Slot(t)] = r.scope]
        /\ view_name' = IF r.err = NoErr THEN Str(vf.module) ELSE view_name
        /\ frame' = IF r.err # NoErr THEN frame
                     ELSE [frame EXCEPT ![t] = [NoFrame EXCEPT !.op = "process_view",
                                                               !.pc = "read", !.vf = vf]]
        /\ req' = [req EXCEPT ![t].view = IF r.err = NoErr THEN Str(ViewName(vf)) ELSE @]
        /\ scen' = ScenStep("process_view", t, <<vf>>)
        /\ last' = Call("process_view", t, <<vf>>, Truthy(scope[Slot(t)].timings), r.err, <<>>,
                        <<>>, <<>>, <<>>)
        /\ UNCHANGED <<settings, now, sink, direct, pending, phase, own, withs>>

\* process_view, lines 153-157: the right-hand side reads self.view_name
process_view_read(t) ==
    /\ frame[t].op = "process_view" /\ frame[t].pc = "read"
    /\ Within
    /\ frame' = [frame EXCEPT ![t] = [@ EXCEPT !.pc = "write", !.rd = view_name]]
    /\ last' = Call("process_view.read", t, <<>>, TRUE, NoErr, <<>>, <<>>, <<>>, <<>>)
    /\ UNCHANGED <<settings, now, sink, scope, direct, pending, phase, scen, own, withs, web>>

\* process_view, lines 153-157: the name made of what was read is written to
\* self.view_name, and the hook returns
process_view_write(t) ==
    /\ frame[t].op = "process_view" /\ frame[t].pc = "write"
    /\ Within
    /\ view_name' = ViewNameFrom(frame[t].rd, frame[t].vf)
    /\ frame' = [frame EXCEPT ![t] = NoFrame]
    /\ last' = Call("process_view.write", t, <<>>, TRUE, NoErr, <<>>, <<>>, <<>>, <<>>)
    /\ UNCHANGED <<settings, now, sink, scope, direct, pending, phase, scen, own, withs, req>>

\* what is accumulated and not emitted after a process_response that did not
\* reach cleanup: the totals its Timer still holds, the counts not emitted
PendingLeft(p, sc, f) ==
    [timings |-> IF Truthy(sc.timings)
                 THEN [k \in DOMAIN p.timings |-> DictGetOr(sc.timings.data, k, 0)]
                 ELSE p.timings,
     counter |-> PendFlush(p.counter, f.emitC),
     counter_site |-> PendFlush(p.counter_site, f.emitS)]

\* StatsdMiddleware.process_response on thread t, lines 159-165: the span,
\* the method, and the test of self.view_name.  An error of the span ends the
\* call.
process_response(t, method, ajax) ==
    LET sc == scope[Slot(t)]
        r0 == PhaseStop(sc, "process_response", now, settings)
        decision == IF Truthy(view_name) THEN "stop" ELSE "skip"
    IN  /\ Free(t)
        /\ Count
        /\ scope' = [scope EXCEPT ![Slot(t)] = r0.scope]
        /\ pending' = [pending EXCEPT ![t].timings =
                          IF r0.dur # <<>> THEN PendAdd(@, "process_response", r0.dur[1])
                          ELSE @]
        /\ frame' = IF r0.err # NoErr THEN frame
                     ELSE [frame EXCEPT ![t] =
                              [NoFrame EXCEPT !.op = "process_response",
                                              !.pc = IF decision = "stop" THEN "stop"
                                                     ELSE "cleanup",
                                              !.decision = decision,
                                              !.method = method, !.ajax = ajax,
                                              !.active = Truthy(sc.timings),
                                              !.flush = StopResult(r0.scope, <<>>, <<>>, <<>>,
                                                                   NoErr),
                                              !.mid = r0.scope]]
        /\ scen' = ScenStep("process_response", t, <<method, ajax>>)
        /\ last' = IF r0.err # NoErr
                    THEN Call("process_response", t, <<method, ajax, "unreached", NoTags>>,
                              Truthy(sc.timings), r0.err, <<>>, <<>>, <<>>, <<>>)
                    ELSE Call("process_response.test", t, <<method, ajax, decision>>,
                              Truthy(sc.timings), NoErr, <<>>, <<>>, <<>>, <<>>)
        /\ UNCHANGED <<settings, now, sink, direct, phase, own, withs, web>>

\* process_response, line 166: self.view_name is read again for the tags, and
\* self.stop(tags) runs up to its statsd calls
process_response_stop(t) ==
    LET f == frame[t]
        sc == scope[Slot(t)]
        tags == ResponseTags(f.method, f.ajax, view_name)
        r == SM_stop(sc, tags, now, settings)
    IN  /\ f.op = "process_response" /\ f.pc = "stop"
        /\ Within
        /\ scope' = [scope EXCEPT ![Slot(t)] = r.scope]
        /\ frame' = [frame EXCEPT ![t] =
                        [f EXCEPT !.pc = "send", !.tags = tags, !.flush = r, !.mid = sc,
                                  !.out = IF Truthy(sc.timings) THEN StopEvents(sc, r, tags)
                                          ELSE <<>>]]
        /\ pending' = [pending EXCEPT ![t] = PendingLeft(@, r.scope, r)]
        /\ phase' = [phase EXCEPT ![t] =
                        IF Truthy(sc.timings) /\ r.err = NoErr THEN "FLUSHED" ELSE @]
        /\ last' = Call("process_response.stop", t, <<tags>>, Truthy(sc.timings), r.err, <<>>,
                        r.emitT, r.emitC, r.emitS)
        /\ UNCHANGED <<settings, now, sink, direct, scen, own, withs, web>>

\* process_response, lines 166-168: the statsd calls of stop are made.  An
\* error of stop ends the call there; else cleanup runs (it writes
\* self.view_name) and the response is returned.
process_response_return(t) ==
    LET f == frame[t]
        sc == scope[Slot(t)]
        ok == f.flush.err = NoErr
    IN  /\ f.op = "process_response"
        /\ f.pc = "cleanup" \/ (f.pc = "send" /\ f.out = <<>>)
        /\ Within
        /\ scope' = [scope EXCEPT ![Slot(t)] = IF ok THEN SM_cleanup(sc) ELSE sc]
        /\ view_name' = IF ok THEN None ELSE view_name
        /\ frame' = [frame EXCEPT ![t] = NoFrame]
        /\ pending' = [pending EXCEPT ![t] = IF ok THEN NoPending ELSE @]
        /\ phase' = [phase EXCEPT ![t] = IF ok THEN "UNINITIALIZED" ELSE @]
        /\ req' = [req EXCEPT ![t] = IF ok THEN NoReq ELSE @]
        /\ heap' = [heap EXCEPT ![t] = IF ok THEN DetachHeap(blocks[t], @, sc.timings) ELSE @]
        /\ blocks' = [blocks EXCEPT ![t] = IF ok THEN DetachBlocks(@, heap[t]) ELSE @]
        /\ last' = Call("process_response", t, <<f.method, f.ajax, f.decision, f.tags>>,
                        f.active, f.flush.err, <<>>, f.flush.emitT, f.flush.emitC,
                        f.flush.emitS)
        /\ UNCHANGED <<settings, now, sink, direct, scen, own>>

\* a hook that only starts or stops the span of a dispatch phase and returns
\* None or the response: what Timer.stop returned is dropped
PhaseHook(op, t, r, key) ==
    /\ Whole(t)
    /\ scope' = [scope EXCEPT ![Slot(t)] = r.scope]
    /\ pending' = [pending EXCEPT ![t].timings =
                      IF r.dur # <<>> THEN PendAdd(@, key, r.dur[1]) ELSE @]
    /\ scen' = ScenStep(op, t, <<>>)
    /\ last' = Call(op, t, <<key>>, Truthy(scope[Slot(t)].timings), r.err, <<>>,
                    <<>>, <<>>, <<>>)
    /\ UNCHANGED <<settings, now, sink, direct, phase, own, withs, web>>

\* StatsdMiddleware.process_exception, process_template_response
process_exception(t) ==
    PhaseHook("process_exception", t,
              PhaseStop(scope[Slot(t)], "process_exception", now, settings),
              "process_exception")
process_template_response(t) ==
    PhaseHook("process_template_response", t,
              PhaseStop(scope[Slot(t)], "process_template_response", now, settings),
              "process_template_response")

\* StatsdMiddlewareTimer, the middleware at the other end of the chain
Timer_process_request(t) ==
    PhaseHook("StatsdMiddlewareTimer.process_request", t,
              PhaseStop(scope[Slot(t)], "process_request", now, settings), "process_request")
Timer_process_view(t) ==
    PhaseHook("StatsdMiddlewareTimer.process_view", t,
              PhaseStop(scope[Slot(t)], "process_view", now, settings), "process_view")
Timer_process_response(t) ==
    PhaseHook("StatsdMiddlewareTimer.process_response", t,
              PhaseStart(scope[Slot(t)], "process_response", now, settings),
              "process_response")
Timer_process_exception(t) ==
    PhaseHook("StatsdMiddlewareTimer.process_exception", t,
              PhaseStart(scope[Slot(t)], "process_exception", now, settings),
              "process_exception")
Timer_process_template_response(t) ==
    PhaseHook("StatsdMiddlewareTimer.process_template_response", t,
              PhaseStart(scope[Slot(t)], "process_template_response", now, settings),
              "process_template_response")

NextReq ==
    \/ Tick
    \/ \E t \in AllThreads : process_request(t)
    \/ \E t \in AllThreads, vf \in ViewFuncs : process_view(t, vf)
    \/ \E t \in AllThreads : process_view_read(t)
    \/ \E t \in AllThreads : process_view_write(t)
    \/ \E t \in AllThreads, method \in Methods, ajax \in BOOLEAN :
           process_response(t, method, ajax)
    \/ \E t \in AllThreads : process_response_stop(t)
    \/ \E t \in AllThreads : statsd_call(t)
    \/ \E t \in AllThreads : process_response_return(t)
    \/ \E t \in AllThreads : process_exception(t)
    \/ \E t \in AllThreads : process_template_response(t)
    \/ \E t \in AllThreads : Timer_process_request(t)
    \/ \E t \in AllThreads : Timer_process_view(t)
    \/ \E t \in AllThreads : Timer_process_response(t)
    \/ \E t \in AllThreads : Timer_process_exception(t)
    \/ \E t \in AllThreads : Timer_process_template_response(t)

SpecReq == InitReq /\ [][NextReq]_vars

\* ------------------------------------------------- the celery handlers
\* django_statsd.celery is imported: the import made its statsd calls and
\* connected the handlers.  The receivers increment(signal) returned are
\* connected too; they do nothing when a signal is sent.
InitTask ==
    /\ InitCommon
    /\ sink = celery_import
    /\ running = Threads
    /\ budget = MaxTaskOps
    /\ aTimer = None
    /\ aCounter = None
    /\ hist = HistVoid

\* celery.increment(signal) called on thread t; it returns a receiver
celery_increment(t, signal) ==
    /\ Whole(t)
    /\ sink' = Append(sink, celery_status(signal))
    /\ scen' = ScenStep("celery.increment", t, <<signal>>)
    /\ last' = Call("celery.increment", t, <<signal>>, Truthy(scope[Slot(t)].timings), NoErr,
                    <<>>, <<>>, <<>>, <<>>)
    /\ UNCHANGED <<settings, now, scope, direct, pending, phase, own, withs, web>>

\* celery.start, the task_prerun handler, on thread t
task_prerun(t) == StatsdMiddleware_start(t, "celery")

\* celery.stop, the task_postrun handler, on thread t with outcome r
PostrunStep(t, name, sc, r) ==
    /\ Whole(t)
    /\ scope' = [scope EXCEPT ![Slot(t)] = r.scope]
    /\ sink' = sink \o (IF Truthy(sc.timings) THEN StopEvents(sc, r, TagsStr(name)) ELSE <<>>)
    /\ pending' = [pending EXCEPT ![t] = IF r.err = NoErr THEN NoPending ELSE PendingLeft(@, r.scope, r)]
    /\ phase' = [phase EXCEPT ![t] = IF r.err = NoErr THEN "UNINITIALIZED" ELSE @]
    /\ heap' = [heap EXCEPT ![t] =
                   IF r.err = NoErr THEN DetachHeap(blocks[t], @, sc.timings) ELSE @]
    /\ blocks' = [blocks EXCEPT ![t] =
                     IF r.err = NoErr THEN DetachBlocks(@, heap[t])
                     ELSE IF Truthy(sc.timings) THEN MixBlocks(@, "total") ELSE @]
    /\ scen' = ScenStep("task_postrun", t, <<name>>)
    /\ last' = Call("task_postrun", t, <<name>>, Truthy(sc.timings), r.err, <<>>,
                    r.emitT, r.emitC, r.emitS)
    /\ UNCHANGED <<settings, now, direct, own, web>>
task_postrun(t, name) ==
    PostrunStep(t, name, scope[Slot(t)], celery_stop(scope[Slot(t)], name, now, settings))

\* celery.clear, the task_failure handler, on thread t
task_failure(t) == clear(t)

NextTask ==
    \/ Tick
    \/ \E t \in Threads, i \in 1..Len(Signals) : celery_increment(t, Signals[i])
    \/ \E t \in Threads : task_prerun(t)
    \/ \E t \in Threads, name \in TaskNames : task_postrun(t, name)
    \/ \E t \in Threads : task_failure(t)
    \/ \E t \in Threads, key \in TimerKeys : start(t, key)
    \/ \E t \in Threads, key \in TimerKeys : stop(t, key)
    \/ \E t \in Threads, key \in CounterKeys, value \in Deltas : incr(t, key, value)
    \/ \E t \in Threads, key \in CounterKeys, value \in Deltas : decr(t, key, value)

SpecTask == InitTask /\ [][NextTask]_vars

\* ------------------------------------------------------- with_ blocks
\* the Timers of hp that the blocks bs still hold
LiveHeap(bs, hp) ==
    LET refs == {bs[i].ref : i \in 1..Len(bs)} \cup {0}
        top == CHOOSE m \in refs : \A x \in refs : x <= m
    IN  SubSeq(hp, 1, top)

InitWith ==
    /\ InitCommon
    /\ sink = celery_import
    /\ running = Threads
    /\ settings.STATSD_PREFIX = ""
    /\ budget = MaxWithOps
    /\ aTimer = None
    /\ aCounter = None
    /\ hist = HistVoid

\* `with with_(key):` entering its block on thread t
with_enter(t, key) ==
    LET sc == scope[Slot(t)]
        r == WithEnter(sc, key, now)
        b == IF r.cls = "WithTimer"
             THEN Block("WithTimer", key, 0, now, Len(DictGetOr(sc.timings.starts, key, <<>>)))
             ELSE Block("DummyWith", key, -1, now, 0)
    IN  /\ Whole(t)
        /\ Len(blocks[t]) < MaxWith
        /\ scope' = [scope EXCEPT ![Slot(t)] = r.scope]
        /\ blocks' = [blocks EXCEPT ![t] = Append(@, b)]
        /\ scen' = ScenStep("with_.enter", t, <<key>>)
        /\ last' = Call("with_.enter", t, <<key>>, Truthy(sc.timings), NoErr, <<>>,
                        <<>>, <<>>, <<>>)
        /\ UNCHANGED <<settings, now, sink, direct, pending, phase, own, heap, web>>

\* the block entered last on thread t being left, by an error or not
with_exit(t, error) ==
    LET sc == scope[Slot(t)]
        b == Last(blocks[t])
        rest == SubSeq(blocks[t], 1, Len(blocks[t]) - 1)
        r == WithExit(sc, heap[t], b, now)
    IN  /\ Whole(t)
        /\ blocks[t] # <<>>
        /\ scope' = [scope EXCEPT ![Slot(t)] = r.scope]
        /\ blocks' = [blocks EXCEPT ![t] = rest]
        /\ heap' = [heap EXCEPT ![t] = LiveHeap(rest, r.heap)]
        /\ pending' = [pending EXCEPT ![t].timings =
                          IF b.ref = 0 /\ r.dur # <<>> THEN PendAdd(@, b.key, r.dur[1]) ELSE @]
        /\ scen' = ScenStep("with_.exit", t, <<b.key>>)
        /\ last' = Call("with_.exit", t, <<b.key, error, r.tm, r.dur>>, b.cls = "WithTimer",
                        r.err, r.ret, <<>>, <<>>, <<>>)
        /\ UNCHANGED <<settings, now, sink, direct, phase, own, web>>

NextWith ==
    \/ Tick
    \/ \E t \in Threads : StatsdMiddleware_start(t, "view")
    \/ \E t \in Threads : StatsdMiddleware_stop(t, NoTags)
    \/ \E t \in Threads : cleanup(t)
    \/ \E t \in Threads : clear(t)
    \/ \E t \in Threads : start(t, "a")
    \/ \E t \in Threads : stop(t, "a")
    \/ \E t \in Threads : incr(t, "a", 1)
    \/ \E t \in Threads : decr(t, "a", 1)
    \/ \E t \in Threads : with_enter(t, "a")
    \/ \E t \in Threads, error \in BOOLEAN : with_exit(t, error)

SpecWith == InitWith /\ [][NextWith]_vars

\* =============================================================== claims
EmitSet(emit) == {emit[i] : i \in 1..Len(emit)}
NonZeroSums(p) == {[k |-> k, v |-> p[k]] : k \in {x \in DOMAIN p : p[x] # 0}}
SeqSet(q) == {q[i] : i \in 1..Len(q)}
\* the statsd calls made since the import of django_statsd.celery, in the runs
\* that begin with it
Sent == SubSeq(sink, Len(celery_import) + 1, Len(sink))

\* ------------------------------------------------------------------ C1
\* what a StatsdMiddleware.stop step emits is what its scope accumulated and
\* has not emitted yet; the elapsed time of the 'total' span it stops counts
StopEmitsOnlyPending ==
    (last'.op = "StatsdMiddleware.stop" /\ last'.active) =>
        LET t == last'.t
            el == now - Last(DictGet(scope[t].timings.starts, "total"))
        IN  /\ \A i \in 1..Len(last'.emitT) :
                  last'.emitT[i].v = pending[t].timings[last'.emitT[i].k]
                                     + (IF last'.emitT[i].k = "total" THEN el ELSE 0)
            /\ \A i \in 1..Len(last'.emitC) :
                  last'.emitC[i].v = pending[t].counter[last'.emitC[i].k]
            /\ \A i \in 1..Len(last'.emitS) :
                  last'.emitS[i].v = pending[t].counter_site[last'.emitS[i].k]
StopLeavesNothingPending ==
    (last.op = "StatsdMiddleware.stop" /\ last.active /\ last.err = NoErr)
        => pending[last.t] = NoPending

\* C1: between StatsdMiddleware.start and the next cleanup or start, every
\* value accumulated in the scope's Timer, Counter and site Counter is emitted
\* exactly once when stop(tags) is called (nothing stays unemitted after a
\* stop that returns on an active scope) and never more than once (a stop
\* emits only what is not emitted yet).
C1_ExactlyOnceFlush == [][StopEmitsOnlyPending]_vars /\ []StopLeavesNothingPending

\* ------------------------------------------------------------------ C2
ScenarioDone == scen.stage = "stopped" /\ last.op = "StatsdMiddleware.stop"
ViewPrefix ==
    IF settings.STATSD_PREFIX = "" THEN "view" ELSE settings.STATSD_PREFIX \o ".view"

\* C2 as stated: start('view'), incr('hit'), stop({method: get}) emits exactly
\* timing view.total=<elapsed> and counter view.hit=1, both tagged method:get,
\* and counter view.hit=1 tagged type:site.
C2_ScenarioAsStated ==
    ScenarioDone =>
        /\ Len(Sent) = 3
        /\ SeqSet(Sent) =
             { [kind |-> "timing", name |-> "view.total", value |-> now - scen.t0,
                tags |-> <<"method:get">>, sample_rate |-> 1],
               [kind |-> "increment", name |-> "view.hit", value |-> 1,
                tags |-> <<"method:get">>, sample_rate |-> 1],
               [kind |-> "increment", name |-> "view.hit", value |-> 1,
                tags |-> <<"type:site">>, sample_rate |-> 1] }

\* C2, amended: with STATSD_TRACK_MIDDLEWARE on the scenario emits, in this
\* order, timing <p>.total=<elapsed> tagged method:get, counter <p>.hit=2
\* tagged method:get (the hit of start plus the incr) and counter <p>.hit=1
\* tagged type:site, <p> being view after the STATSD_PREFIX and a dot when one
\* is set; with the toggle off stop raises NameError and nothing is emitted.
C2_Scenario ==
    ScenarioDone =>
        IF settings.TRACK_MIDDLEWARE
        THEN /\ last.err = NoErr
             /\ Sent =
                  << [kind |-> "timing", name |-> ViewPrefix \o ".total",
                      value |-> now - scen.t0, tags |-> <<"method:get">>, sample_rate |-> 1],
                     [kind |-> "increment", name |-> ViewPrefix \o ".hit", value |-> 2,
                      tags |-> <<"method:get">>, sample_rate |-> 1],
                     [kind |-> "increment", name |-> ViewPrefix \o ".hit", value |-> 1,
                      tags |-> <<"type:site">>, sample_rate |-> 1] >>
        ELSE last.err = "NameError" /\ Sent = <<>>
C2_Witness ==
    /\ ScenarioDone
    /\ settings.TRACK_MIDDLEWARE
    /\ Len(Sent) = 3
    /\ now - scen.t0 > 0

\* ------------------------------------------------------------------ C9
\* C9: StatsdMiddleware.start(prefix), whatever the thread's scope was, leaves
\* a Timer with exactly one outstanding start for 'total' (taken at the call)
\* and no totals, and a Counter and a site Counter holding hit=1 and nothing
\* else.
C9_FreshScope ==
    last.op = "StatsdMiddleware.start" =>
        LET sc == scope[last.t]
        IN  /\ sc.timings.cls = "Timer"
            /\ sc.timings.starts = << [k |-> "total", v |-> <<now>>] >>
            /\ sc.timings.data = <<>>
            /\ sc.counter.cls = "Counter"
            /\ sc.counter.data = << [k |-> "hit", v |-> 1] >>
            /\ sc.counter_site.cls = "Counter"
            /\ sc.counter_site.data = << [k |-> "hit", v |-> 1] >>
            /\ pending[last.t] = [NoPending EXCEPT !.counter["hit"] = 1,
                                                   !.counter_site["hit"] = 1]
C9_Witness ==
    /\ last.op = "StatsdMiddleware.start"
    /\ last.args[2] = "FLUSHED"

\* ----------------------------------------------------------------- C10
StopWithoutScope ==
    (last'.op = "StatsdMiddleware.stop" /\ ~Truthy(scope[last'.t].timings)) =>
        /\ last'.err = NoErr
        /\ last'.emitT = <<>> /\ last'.emitC = <<>> /\ last'.emitS = <<>>
        /\ sink' = sink
        /\ scope' = scope
\* C10: StatsdMiddleware.stop(tags) on a thread with no current scope emits
\* nothing, changes no state and raises nothing.
C10_StopWithoutScope == [][StopWithoutScope]_vars
C10_Witness ==
    /\ last.op = "StatsdMiddleware.stop"
    /\ ~last.active
    /\ Truthy(scope[last.t].counter_site)

\* ------------------------------------------------------------------ C4
IsCallOn(c, i, op, k) == c[i].op = op /\ c[i].k = k

\* the start that the stop at place j of the call log c ends: the latest
\* earlier start of the same key that no earlier stop has ended
RECURSIVE Partner(_, _)
Partner(c, j) ==
    LET k == c[j].k
        free(i) == /\ IsCallOn(c, i, "start", k)
                   /\ \A x \in (i + 1)..(j - 1) :
                          IsCallOn(c, x, "stop", k) => Partner(c, x) # i
    IN  CHOOSE i \in 1..(j - 1) : free(i) /\ \A y \in (i + 1)..(j - 1) : ~free(y)

Elapsed(c, j) == c[j].at - c[Partner(c, j)].at

\* the sum of the elapsed times of the stops of key k among the first n calls
RECURSIVE SumElapsed(_, _, _)
SumElapsed(c, k, n) ==
    IF n = 0 THEN 0
    ELSE SumElapsed(c, k, n - 1) + (IF IsCallOn(c, n, "stop", k) THEN Elapsed(c, n) ELSE 0)

\* the times of the starts of key k among the first n calls that no stop of
\* the log has ended, oldest first
RECURSIVE OpenStarts(_, _, _)
OpenStarts(c, k, n) ==
    IF n = 0 THEN <<>>
    ELSE LET ended == \E j \in (n + 1)..Len(c) :
                          IsCallOn(c, j, "stop", k) /\ Partner(c, j) = n
         IN  IF IsCallOn(c, n, "start", k) /\ ~ended
             THEN Append(OpenStarts(c, k, n - 1), c[n].at)
             ELSE OpenStarts(c, k, n - 1)

StoppedKeys(c) == {c[i].k : i \in {x \in 1..Len(c) : c[x].op = "stop"}}

\* C4: over start and stop calls in which every stop has an outstanding
\* start, each stop ends the latest start of its key not yet ended and returns
\* now minus that start's time, the starts left open are the ones no stop has
\* ended, the total of a key is the sum of the elapsed times of its stops, and
\* that total is the value a submit hands to the sink.
C4_StackDiscipline ==
    LET c == hist.calls
        n == Len(c)
    IN  /\ hist.state = "open" =>
              /\ \A k \in TimerKeys :
                    /\ DictGetOr(aTimer.data, k, 0) = SumElapsed(c, k, n)
                    /\ DictGetOr(aTimer.starts, k, <<>>) = OpenStarts(c, k, n)
              /\ DictKeys(aTimer.data) = StoppedKeys(c)
              /\ last.op = "Timer.stop" => last.ret = <<Elapsed(c, n)>>
        /\ (hist.state = "flushed" /\ last.op = "Timer.submit" /\ settings.TRACK_MIDDLEWARE) =>
              EmitSet(last.emitT) = {[k |-> k, v |-> SumElapsed(c, k, n)] : k \in StoppedKeys(c)}
C4_Witness ==
    LET c == hist.calls
    IN  /\ hist.state = "open"
        /\ Len(c) = 4
        /\ c[1].op = "start" /\ c[2].op = "start" /\ c[3].op = "stop" /\ c[4].op = "stop"
        /\ \A i \in 1..4 : c[i].k = "a"
        /\ c[1].at < c[2].at /\ c[2].at < c[3].at
        /\ aTimer.data = << [k |-> "a", v |-> (c[3].at - c[2].at) + (c[4].at - c[1].at)] >>
        /\ aTimer.starts = <<>>

\* ------------------------------------------------------------------ C5
StopWithoutStart ==
    (last'.op = "Timer.stop" /\ DictGetOr(aTimer.starts, last'.args[1], <<>>) = <<>>) =>
        /\ last'.err # NoErr
        /\ last'.ret = <<>>
        /\ aTimer'.data = aTimer.data
\* C5: Timer.stop(k) with no start(k) outstanding raises; it returns no
\* duration and adds nothing to any total.
C5_StopWithoutStart == [][StopWithoutStart]_vars
\* a stop of a key whose one start was already stopped
C5_Witness ==
    /\ last.op = "Timer.stop"
    /\ last.err = "AssertionError"
    /\ DictHas(aTimer.data, last.args[1])

\* ------------------------------------------------------------------ C7
SubmitEmitsAll ==
    last'.op = "Timer.submit" =>
        /\ last'.emitT = aTimer.data
        /\ aTimer'.data = <<>>
\* C7: Timer.submit emits one timing event for every key with a total, zero
\* totals included, and leaves the totals empty.
C7_SubmitEmitsAll == [][SubmitEmitsAll]_vars

\* ------------------------------------------------------------------ C8
HasOpenSpan(tm) == \E i \in 1..Len(tm.starts) : tm.starts[i].v # <<>>
SubmitOpenSpanCheck ==
    last'.op = "Timer.submit" =>
        IF settings.DEBUG
        THEN (last'.err # NoErr) <=> HasOpenSpan(aTimer)
        ELSE last'.err # "AssertionError"
\* C8: with settings.DEBUG Timer.submit fails exactly when some key has a
\* start that was not stopped; without it Timer.submit never fails over open
\* spans; after any starts and stops, failed stops included.
C8_OpenSpanCheck == [][SubmitOpenSpanCheck]_vars

\* ------------------------------------------------------------------ C3
SubmitEmitsSums ==
    last'.op = "Counter.submit" =>
        /\ EmitSet(last'.emitC) = NonZeroSums(applied)
        /\ Len(last'.emitC) = Cardinality(NonZeroSums(applied))
\* C3: Counter.submit emits, for each key, one event whose value is the sum
\* of the signed deltas applied to the key, and none for a key whose sum is
\* zero.
C3_SubmitEmitsSums == [][SubmitEmitsSums]_vars

\* ------------------------------------------------------------------ C6
SubmitReturned == last.op = "Counter.submit" /\ last.err = NoErr
\* C6: after Counter.submit returns the Counter's mapping is empty, and a
\* second submit right after it emits nothing.
C6_SubmitClears ==
    /\ [](SubmitReturned => aCounter.data = <<>>)
    /\ [][(SubmitReturned /\ last'.op = "Counter.submit") => last'.emitC = <<>>]_vars

\* ----------------------------------------------------------------- C11
NoCurrentScope(t) == ~Truthy(scope[t].timings) /\ ~Truthy(scope[t].counter)
ModuleOpWithoutScope ==
    LET t == last'.t
    IN  (/\ last'.op \in {"start", "stop", "incr", "decr", "with_.enter", "with_.exit"}
         /\ NoCurrentScope(t)
         /\ last'.op = "with_.exit" => Last(blocks[t]).cls = "DummyWith")
        => /\ last'.err = NoErr
           /\ last'.ret = <<>>
           /\ scope' = scope
           /\ heap' = heap
           /\ sink' = sink
           /\ pending' = pending
           /\ own' = own
\* C11: on a thread without a current scope (no Timer and no Counter in it)
\* start, stop, incr, decr and a with_ block's enter and exit raise nothing,
\* change no accumulator and emit nothing.
C11_NoScopeNoOp == [][ModuleOpWithoutScope]_vars
\* a with_ block entered and left without a scope, after a cleanup
C11_Witness ==
    /\ last.op = "with_.exit"
    /\ ~last.active
    /\ NoCurrentScope(last.t)
    /\ Truthy(scope[last.t].counter_site)

\* ----------------------------------------------------------------- C12
CleanupLeavesNoScope ==
    last'.op \in {"cleanup", "clear"} =>
        /\ sink' = sink
        /\ scope'[last'.t] = NoScope
LaterOpsAreNoOps ==
    (/\ last'.op \in {"start", "stop", "incr", "decr"}
     /\ phase[last'.t] = "UNINITIALIZED")
    => /\ scope' = scope
       /\ last'.err = NoErr
\* C12: StatsdMiddleware.cleanup and celery's clear emit nothing and leave the
\* thread without a Timer, a Counter and a site Counter, and from then until
\* the next StatsdMiddleware.start every incr, decr, start and stop on the
\* thread changes nothing.
C12_CleanupLeavesNoScope == [][CleanupLeavesNoScope /\ LaterOpsAreNoOps]_vars

\* ----------------------------------------------------------------- C13
\* what a StatsdMiddleware.stop of thread t emits is what t's own calls
\* recorded: its spans, its increments, the hit of its own start
StopEmitsOwn ==
    (last'.op = "StatsdMiddleware.stop" /\ last'.active) =>
        LET t == last'.t
        IN  /\ \A i \in 1..Len(last'.emitT) :
                  last'.emitT[i].v = pending[t].timings[last'.emitT[i].k]
                      + (IF last'.emitT[i].k = "total" THEN now - own[t].t0 ELSE 0)
            /\ \A i \in 1..Len(last'.emitC) :
                  last'.emitC[i].v = own[t].counter[last'.emitC[i].k]
            /\ \A i \in 1..Len(last'.emitS) :
                  last'.emitS[i].v = own[t].counter_site[last'.emitS[i].k]
            /\ last'.err = NoErr =>
                  /\ \E i \in 1..Len(last'.emitT) : last'.emitT[i].k = "total"
                  /\ EmitSet(last'.emitC) = NonZeroSums(own[t].counter)
                  /\ EmitSet(last'.emitS) = NonZeroSums(own[t].counter_site)
\* a call of one thread leaves the scopes of the others as they were
OthersUntouched ==
    \A u \in AllThreads : u # last'.t => scope'[u] = scope[u]
\* the counters in a thread's scope hold the sums of that thread's calls
ScopeHoldsOwn ==
    \A t \in AllThreads :
        /\ Truthy(scope[t].counter) =>
              \A k \in CounterKeys : DictGetOr(scope[t].counter.data, k, 0) = own[t].counter[k]
        /\ phase[t] # "UNINITIALIZED" =>
              /\ Truthy(scope[t].counter)
              /\ Truthy(scope[t].counter_site)
              /\ \A k \in CounterKeys :
                    DictGetOr(scope[t].counter_site.data, k, 0) = own[t].counter_site[k]
\* C13: in any interleaving of two threads' StatsdMiddleware.start, incr, decr,
\* start(key), stop(key), StatsdMiddleware.stop(tags) and cleanup, the statsd
\* calls of the two flushes included, a thread's stop emits only what that
\* thread recorded, and exactly what it recorded (as it would running alone);
\* no call touches the other thread's scope.
C13_ThreadIsolation == [][StopEmitsOwn /\ OthersUntouched]_vars /\ []ScopeHoldsOwn
\* two flushes at once, t1's begun a tick before t2's: the statsd calls of
\* the two alternate in the sink, and each total is the thread's own
C13_Witness ==
    /\ last.op = "statsd"
    /\ \A t \in AllThreads : Free(t) /\ phase[t] = "FLUSHED"
    /\ Len(sink) = 6
    /\ sink[1].kind = "timing" /\ sink[1].value = now - own["t1"].t0
    /\ sink[2].kind = "timing" /\ sink[2].value = now - own["t2"].t0
    /\ own["t1"].t0 < own["t2"].t0

\* ----------------------------------------------------------------- C14
TagKeys(tags) == [i \in 1..Len(tags.items) |-> tags.items[i][1]]
ResponseFlushesAndClears ==
    LET t == last'.t
    IN  (last'.op = "process_response" /\ req[t].stage = "requested") =>
            /\ last'.args[3] = "stop"
            /\ SeqSet(TagKeys(last'.args[4])) = {"method", "view_name", "type"}
            /\ last'.err = NoErr
            /\ \E i \in 1..Len(last'.emitT) : last'.emitT[i].k = "total"
            /\ \E i \in 1..Len(last'.emitC) : last'.emitC[i].k = "hit"
            /\ ~Truthy(scope'[t].timings) /\ ~Truthy(scope'[t].counter)
\* C14: for a request that process_request began, process_response calls
\* StatsdMiddleware.stop with tags method, view_name and type and then cleanup:
\* the scope is flushed (the total span and the hit are emitted) and cleared,
\* whether process_view ran for the request or not.
C14_ResponseFlushes == [][ResponseFlushesAndClears]_vars

\* ----------------------------------------------------------------- C17
TagValue(tags, key) ==
    tags.items[CHOOSE i \in 1..Len(tags.items) : tags.items[i][1] = key][2]
ResponseUsesOwnView ==
    LET t == last'.t
    IN  (/\ last'.op = "process_response"
         /\ req[t].stage = "requested"
         /\ last'.args[3] # "unreached")
        => IF Truthy(req[t].view)
           THEN /\ last'.args[3] = "stop"
                /\ StrOf(TagValue(last'.args[4], "view_name")) = req[t].view.s
           ELSE last'.args[3] = "skip"
\* C17: with two requests handled at once on two threads by one
\* StatsdMiddleware, the view_name that process_response hands to stop is the
\* one process_view recorded for the same request, and whether the request is
\* flushed (stop called or skipped) is decided by that request's own
\* process_view alone.
C17_OwnViewName == [][ResponseUsesOwnView]_vars

\* ----------------------------------------------------------------- C15
PostrunFlushes ==
    (last'.op = "task_postrun" /\ phase[last'.t] = "ACTIVE") =>
        /\ last'.err = NoErr
        /\ \E i \in 1..Len(last'.emitT) : last'.emitT[i].k = "total"
        /\ \E i \in 1..Len(last'.emitC) : last'.emitC[i].k = "hit"
        /\ \E i \in 1..Len(last'.emitS) : last'.emitS[i].k = "hit"
        /\ \A i \in (Len(sink) + 1)..Len(sink') :
              sink'[i].tags \in {<<>>, <<"type:site">>}
        /\ ~Truthy(scope'[last'.t].timings)
FailureClears ==
    last'.op = "clear" =>
        /\ sink' = sink
        /\ ~Truthy(scope'[last'.t].timings)
\* C15: after task_prerun and the task's body the task_postrun handler emits
\* the celery total timing and the hit counters with an empty tag set, raises
\* nothing and leaves no current scope; the task_failure handler clears the
\* scope and emits nothing.
C15_TaskLifecycle == [][PostrunFlushes /\ FailureClears]_vars

\* ----------------------------------------------------------------- C16
BlockExitStopsOnce ==
    LET t == last'.t
        b == Last(blocks[t])
        before == HeldTimer(scope[t], heap[t], b)
        after == last'.args[3]
    IN  (last'.op = "with_.exit" /\ b.cls = "WithTimer" /\ ~b.mixed) =>
            /\ last'.err = NoErr
            /\ last'.args[4] = <<now - b.t0>>
            /\ Len(DictGetOr(after.starts, b.key, <<>>)) = b.depth0
            /\ DictGetOr(after.data, b.key, 0) = DictGetOr(before.data, b.key, 0) + (now - b.t0)
            /\ after.cls = "Timer" /\ after.prefix = before.prefix
\* C16: leaving a with_(key) block that was entered with a scope, by an error
\* or not, stops key once on the Timer the block was entered on (the stop
\* returns the time spent in the block to __exit__): that Timer
\* then has as many outstanding starts of key as before the block and its
\* total for key has grown by the time spent in the block, also when the
\* thread's scope was cleaned up or replaced by a new start in between (the
\* block's body leaving key itself alone).
C16_BlockExitStops == [][BlockExitStopsOnce]_vars
\* a block left by an error after a new StatsdMiddleware.start replaced the
\* scope it was entered in
C16_Witness ==
    /\ last.op = "with_.exit" /\ last.active
    /\ last.args[2]
    /\ last.args[4] # <<>> /\ last.args[4][1] > 0
    /\ Truthy(scope[last.t].timings)
    /\ scope[last.t].timings # last.args[3]
    /\ ~DictHas(scope[last.t].timings.data, "a")

\* ----------------------------------------------------------------- C18
\* what a unit of work recorded since its own StatsdMiddleware.start: the
\* spans ended since (the total span from the start itself) and the sums of
\* its increments
StopEmitsOwnUnit ==
    (last'.op = "StatsdMiddleware.stop" /\ last'.active) =>
        LET t == last'.t
        IN  /\ \A i \in 1..Len(last'.emitT) :
                  LET k == last'.emitT[i].k
                      v == last'.emitT[i].v
                  IN  IF k = "total"
                      THEN /\ pending[t].timings[k] <= v
                           /\ v <= pending[t].timings[k] + (now - own[t].t0)
                      ELSE v = pending[t].timings[k]
            /\ \A i \in 1..Len(last'.emitC) :
                  last'.emitC[i].v = own[t].counter[last'.emitC[i].k]
            /\ \A i \in 1..Len(last'.emitS) :
                  last'.emitS[i].v = own[t].counter_site[last'.emitS[i].k]
\* C18: on a thread that runs one unit of work after another, however each
\* ended (flush, cleanup, task failure, an error during the flush), what a
\* unit's StatsdMiddleware.stop emits was recorded after that unit's own
\* StatsdMiddleware.start: the counts are the unit's own sums, the timings the
\* sums of the spans the unit ended, and the total span it ends began no
\* earlier than the unit.
C18_NoBleed == [][StopEmitsOwnUnit]_vars
\* the flush of a second unit on the thread of a first one, whose flush left
\* its hit in the counters it did not clear
C18_Witness ==
    /\ last.op = "StatsdMiddleware.stop" /\ last.active /\ last.err = NoErr
    /\ Len(Sent) = 6
    /\ Sent[2].name = "celery.hit" /\ Sent[2].value = 1
    /\ Sent[5].name = "view.hit" /\ Sent[5].value = 1
    /\ Sent[6].name = "view.hit" /\ Sent[6].value = 1

\* ----------------------------------------------------------------- C19
FailedStopChangesNothing ==
    (last'.op = "Timer.stop" /\ last'.err # NoErr) =>
        /\ DictKeys(aTimer'.starts) = DictKeys(aTimer.starts)
        /\ aTimer'.starts = aTimer.starts
        /\ aTimer'.data = aTimer.data
\* C19: a Timer.stop(key) that fails for want of an outstanding start leaves
\* the Timer as it was: the same keys with start stacks, the same stacks, the
\* same totals.
C19_FailedStopNoChange == [][FailedStopChangesNothing]_vars

\* ----------------------------------------------------------------- C20
ToggleOn == [settings EXCEPT !.TRACK_MIDDLEWARE = TRUE]
StopSameWithToggleOff ==
    (last'.op = "StatsdMiddleware.stop" /\ last'.active /\ ~settings.TRACK_MIDDLEWARE) =>
        LET on == SM_stop(scope[last'.t], last'.args[1], now, ToggleOn)
        IN  /\ last'.err = on.err
            /\ last'.err # "NameError"
            /\ last'.emitT = on.emitT /\ last'.emitC = on.emitC /\ last'.emitS = on.emitS
            /\ sink' = sink \o StopEvents(scope[last'.t], on, last'.args[1])
            /\ scope'[last'.t] = on.scope
\* C20: with STATSD_TRACK_MIDDLEWARE off, StatsdMiddleware.stop on a started
\* scope does what it does with the toggle on: it emits the total timing and
\* the hit counters to the sink and raises no error of its own.
C20_ToggleOnlyPhases == [][StopSameWithToggleOff]_vars
====
